---- MODULE Spec2Model ----
(***************************************************************************)
(* blum.bike telemetry dashboard.                                          *)
(*                                                                         *)
(* Two programs are modelled: the current web app                          *)
(* (src/blumbike_web_app/app.py, webhook /update) and the legacy one        *)
(* (src/app.py, webhook /append).  A deployment runs one of them against    *)
(* one Redis database; `app` says which.                                    *)
(*                                                                         *)
(* A Redis key holds a sequence: a scalar key is <<>> when it does not      *)
(* exist and <<v>> when it holds v; a list key is the list itself, newest   *)
(* entry first, and exists exactly when it is not empty.  Numbers that      *)
(* Redis keeps as decimal strings and the code reads back with int() or     *)
(* float() are kept as the numbers.  Payloads are well formed: every field  *)
(* an event kind reads is present; only the apikey field may be missing.    *)
(***************************************************************************)
EXTENDS Integers, Sequences, FiniteSets, TLC

VARIABLES
    app,        \* which program is deployed: "current" or "legacy"
    environ,    \* os.environ: the keys apikey and mode, <<>> when not set
    r,          \* the Redis database, key -> value
    last,       \* the operation handled last: its input and what it returned
    accepted,   \* history: the samples accepted since the database was last empty
    inflight    \* the /update handlers that run one Redis operation at a time

vars == <<app, environ, r, last, accepted, inflight>>

(***************************************************************************)
(* Bounds and input domains.                                               *)
(***************************************************************************)
MaxLen == 3                      \* samples kept per list before ingestion stops
MaxAccepted == 303               \* samples the legacy app accepts in SpecLegacy
MaxConcLen == 2                  \* samples accepted between two flushes in SpecConc
Handlers == {"h1", "h2"}         \* the /update requests that can be in flight at once

Times == {1, 2}                  \* the t of an event (unix seconds)
Ips == {"1.2.3.4", "5.6.7.8"}    \* public IP addresses
Readings == { [bike_mph |-> 10, resistance |-> 3, heart_bpm |-> 120],
              [bike_mph |-> 15, resistance |-> 5, heart_bpm |-> 130] }
UnknownEvents == {"reboot"}      \* event tags the handler does not know
ApiKeys == {"", "secret", "wrong"}

MIN_RESISTANCE == 1
MAX_RESISTANCE == 10

(***************************************************************************)
(* The Redis operations the programs use.                                  *)
(***************************************************************************)
ScalarKeys == {"powered_on", "session_start", "session_end", "bike_ip"}
ListKeys == {"timestamp", "bike_mph", "resistance", "heart_bpm"}
Keys == ScalarKeys \cup ListKeys

flushdb == [k \in Keys |-> <<>>]

exists(s, k) == s[k] # <<>>

get(s, k) == s[k]

set(s, k, v) == [s EXCEPT ![k] = <<v>>]

delete(s, k) == [s EXCEPT ![k] = <<>>]

\* Mutant: RPUSH, the value goes to the tail of the list.
rpush(s, k, v) == [s EXCEPT ![k] = @ \o <<v>>]

lpush(s, k, v) == [s EXCEPT ![k] = <<v>> \o @]

\* LINDEX: <<>> (None) when the index is past the end of the list.
lindex(s, k, i) == IF i < Len(s[k]) THEN <<s[k][i + 1]>> ELSE <<>>

\* LTRIM key start stop, 0 <= start <= stop: keep the entries start..stop.
ltrim(s, k, start, stop) ==
    [s EXCEPT ![k] = SubSeq(@, start + 1, IF stop + 1 < Len(@) THEN stop + 1 ELSE Len(@))]

\* LRANGE key 0 -1: the whole list.
lrange(s, k) == s[k]

(***************************************************************************)
(* Webhook requests.                                                       *)
(***************************************************************************)
\* The apikey field of the JSON body: <<>> when the body has no such field.
RequestKeys == {<<>>} \cup {<<k>> : k \in ApiKeys}

UpdateData ==
    [event : {"powered_on", "end_session"}, t : Times]
    \cup [event : {"start_session"}, t : Times, ip : Ips]
    \cup {[event |-> "new_data", t |-> t, bike_mph |-> d.bike_mph,
           resistance |-> d.resistance, heart_bpm |-> d.heart_bpm] :
              t \in Times, d \in Readings}
    \cup [event : UnknownEvents, t : Times]

\* One payload of each event kind, for the requests the decorator turns away
\* (it never reads the data).
ProbeData ==
    { d \in UpdateData :
        /\ d.t = 1
        /\ d.event = "start_session" => d.ip = "1.2.3.4"
        /\ d.event = "new_data" => d.bike_mph = 10 }

UpdateRequests ==
    [apikey : {<<"secret">>}, data : UpdateData]
    \cup [apikey : RequestKeys \ {<<"secret">>}, data : ProbeData]

\* The decorator's test, evaluated left to right: request.json['apikey'] raises
\* KeyError when the field is missing, before anything else is looked at.
require_apikey(json) ==
    IF json.apikey = <<>> THEN "KeyError"
    ELSE IF json.apikey[1] # ""
            /\ environ.apikey # <<>>
            /\ json.apikey[1] = environ.apikey[1]
         THEN "pass"
         ELSE "invalid"

InvalidKey(s) == [store |-> s, reply |-> "invalid key", status |-> 401]

\* An exception that leaves the view function: Flask answers 500.
ServerError(s, exc) == [store |-> s, reply |-> exc, status |-> 500]

(***************************************************************************)
(* /update of the current app.                                             *)
(***************************************************************************)
\* Mutants of the staleness test: one forgets the session_end marker, one
\* compares with the oldest entry, one compares the wrong way round.
IsStaleNoEnd(s, t) == exists(s, "timestamp") /\ lindex(s, "timestamp", 0)[1] > t

IsStaleOldest(s, t) ==
    (exists(s, "timestamp") /\ s["timestamp"][Len(s["timestamp"])] > t)
    \/ exists(s, "session_end")

IsStaleInverted(s, t) ==
    (exists(s, "timestamp") /\ lindex(s, "timestamp", 0)[1] < t)
    \/ exists(s, "session_end")

\* Mutant: a sample as old as the newest stored one is stale too.
IsStaleOrEqual(s, t) ==
    (exists(s, "timestamp") /\ lindex(s, "timestamp", 0)[1] >= t)
    \/ exists(s, "session_end")

\* "If a value comes in out of order, discard it."
IsStale(s, t) ==
    (exists(s, "timestamp") /\ lindex(s, "timestamp", 0)[1] > t)
    \/ exists(s, "session_end")

\* Mutant: the heart_bpm push is left out.
PushSampleNoHeart(s, d) ==
    lpush(lpush(lpush(s, "timestamp", d.t), "bike_mph", d.bike_mph), "resistance", d.resistance)

PushSample(s, d) ==
    lpush(lpush(lpush(lpush(s, "timestamp", d.t),
                      "bike_mph", d.bike_mph),
                "resistance", d.resistance),
          "heart_bpm", d.heart_bpm)

\* Mutant: the flushdb is left out.
StartSessionNoFlush(s, d) == set(set(s, "session_start", d.t), "bike_ip", d.ip)

StartSession(s, d) == set(set(flushdb, "session_start", d.t), "bike_ip", d.ip)

\* Mutant: the session's data is dropped together with bike_ip.
EndSessionFlush(s, d) == set(flushdb, "session_end", d.t)

\* Mutant: the r.delete('bike_ip') is left out.
EndSessionKeepIp(s, d) == set(s, "session_end", d.t)

EndSession(s, d) == delete(set(s, "session_end", d.t), "bike_ip")

\* Mutant: powering on starts from an empty database.
PoweredOnReset(s, d) == set(flushdb, "powered_on", d.t)

PoweredOn(s, d) == set(s, "powered_on", d.t)

\* Mutant: the unknown event is acknowledged like the others.
NotUnderstoodOk(s, d) ==
    [store |-> s, reply |-> "event '" \o d.event \o "' not understood", status |-> 200]

\* The final else branch: an event tag that is none of the four.
NotUnderstood(s, d) ==
    [store |-> s, reply |-> "event '" \o d.event \o "' not understood", status |-> 501]

\* The body of rest_update on the decoded data d, from the store s.
rest_update(s, d) ==
    IF d.event = "powered_on" THEN
        [store |-> PoweredOn(s, d), reply |-> "power on received", status |-> 200]
    ELSE IF d.event = "start_session" THEN
        [store |-> StartSession(s, d), reply |-> "started session", status |-> 200]
    ELSE IF d.event = "end_session" THEN
        [store |-> EndSession(s, d), reply |-> "ended session", status |-> 200]
    ELSE IF d.event = "new_data" THEN
        IF IsStale(s, d.t)
        THEN [store |-> s, reply |-> "ignored stale data", status |-> 200]
        ELSE [store |-> PushSample(s, d), reply |-> "data appended", status |-> 200]
    ELSE NotUnderstood(s, d)

\* POST /update: the decorated view.
update_route(s, json) ==
    LET k == require_apikey(json) IN
    IF k = "KeyError" THEN ServerError(s, "KeyError")
    ELSE IF k = "invalid" THEN InvalidKey(s)
    ELSE rest_update(s, json.data)

RestUpdate(reqs) ==
    /\ app = "current"
    /\ \E json \in reqs :
         LET o == update_route(r, json) IN
         /\ Len(o.store.timestamp) <= MaxLen
         /\ r' = o.store
         /\ last' = [op |-> "rest_update", req |-> json,
                     out |-> [reply |-> o.reply, status |-> o.status]]
         /\ accepted' = IF o.reply = "data appended" THEN accepted + 1
                        ELSE IF o.reply = "started session" THEN 0
                        ELSE accepted
    /\ UNCHANGED <<app, environ, inflight>>

(***************************************************************************)
(* /append of the legacy app.                                              *)
(***************************************************************************)
TrimStop == 300                  \* r.ltrim(key, 0, 300)

AppendData ==
    {[t |-> t, bike_mph |-> d.bike_mph, heart_bpm |-> d.heart_bpm] :
        t \in Times, d \in Readings}

AppendRequests ==
    [apikey : {<<"secret">>}, data : AppendData]
    \cup [apikey : RequestKeys \ {<<"secret">>}, data : {d \in AppendData : d.t = 1 /\ d.bike_mph = 10}]

IsStaleLegacy(s, t) == exists(s, "timestamp") /\ lindex(s, "timestamp", 0)[1] > t

PushSampleLegacy(s, d) ==
    lpush(lpush(lpush(s, "timestamp", d.t), "bike_mph", d.bike_mph), "heart_bpm", d.heart_bpm)

\* Mutant: the trim keeps one entry too many.
TrimListsLate(s) ==
    ltrim(ltrim(ltrim(s, "timestamp", 0, TrimStop + 1), "bike_mph", 0, TrimStop + 1),
          "heart_bpm", 0, TrimStop + 1)

TrimLists(s) ==
    ltrim(ltrim(ltrim(s, "timestamp", 0, TrimStop), "bike_mph", 0, TrimStop),
          "heart_bpm", 0, TrimStop)

\* The body of append_data on the decoded data d, from the store s.
append_data(s, d) ==
    IF IsStaleLegacy(s, d.t)
    THEN [store |-> s, reply |-> "ignored stale data", status |-> 200]
    ELSE [store |-> TrimLists(PushSampleLegacy(s, d)), reply |-> "data appended", status |-> 200]

\* POST /append: the decorated view.
append_route(s, json) ==
    LET k == require_apikey(json) IN
    IF k = "KeyError" THEN ServerError(s, "KeyError")
    ELSE IF k = "invalid" THEN InvalidKey(s)
    ELSE append_data(s, json.data)

AppendSample ==
    /\ app = "legacy"
    /\ \E json \in AppendRequests :
         LET o == append_route(r, json) IN
         /\ Len(o.store.timestamp) <= MaxLen
         /\ r' = o.store
         /\ last' = [op |-> "append_data", req |-> json,
                     out |-> [reply |-> o.reply, status |-> o.status]]
         /\ accepted' = IF o.reply = "data appended" THEN accepted + 1 ELSE accepted
    /\ UNCHANGED <<app, environ, inflight>>

\* The same handler fed one reading per timestamp, until MaxAccepted samples
\* have been accepted: the lists grow past the trim.
LongRequests ==
    { q \in AppendRequests :
        /\ q.apikey = <<"secret">>
        /\ q.data.bike_mph = (IF q.data.t = 1 THEN 10 ELSE 15) }

AppendLong ==
    /\ app = "legacy"
    /\ accepted < MaxAccepted
    /\ \E json \in LongRequests :
         LET o == append_route(r, json) IN
         /\ r' = o.store
         /\ last' = [op |-> "append_data", req |-> json,
                     out |-> [reply |-> o.reply, status |-> o.status]]
         /\ accepted' = IF o.reply = "data appended" THEN accepted + 1 ELSE accepted
    /\ UNCHANGED <<app, environ, inflight>>

(***************************************************************************)
(* The polling query update_metrics of the current app.                    *)
(***************************************************************************)
RECURSIVE SumSeq(_)
SumSeq(xs) == IF xs = <<>> THEN 0 ELSE Head(xs) + SumSeq(Tail(xs))

RECURSIVE MaxSeq(_)
MaxSeq(xs) ==
    IF Len(xs) = 1 THEN xs[1]
    ELSE LET m == MaxSeq(Tail(xs)) IN IF Head(xs) >= m THEN Head(xs) ELSE m

\* '{0:0.2f}'.format(num / den), den > 0, as a number of hundredths: the
\* nearest one, the even one when num / den lies exactly between two.
Format2(num, den) ==
    LET q == (100 * num) \div den
        rem == (100 * num) % den
    IN  IF 2 * rem < den THEN q
        ELSE IF 2 * rem > den THEN q + 1
        ELSE IF q % 2 = 0 THEN q ELSE q + 1

\* Mutant: the mean is cut to a whole number before it is formatted.
MeanWhole(xs) == 100 * (SumSeq(xs) \div Len(xs))

\* sum(xs) / len(xs) as the text shows it, in hundredths; xs is not empty.
Mean(xs) == Format2(SumSeq(xs), Len(xs))

\* The session summary, once the three lists are known not to be empty.
Summary(s) ==
    [view |-> "summary",
     duration |-> get(s, "session_end")[1] - get(s, "session_start")[1],
     avg_speed |-> Mean(lrange(s, "bike_mph")),
     max_speed |-> MaxSeq(lrange(s, "bike_mph")),
     avg_resistance |-> Mean(lrange(s, "resistance")),
     max_resistance |-> MaxSeq(lrange(s, "resistance")),
     avg_heart |-> Mean(lrange(s, "heart_bpm")),
     max_heart |-> MaxSeq(lrange(s, "heart_bpm")),
     ended |-> get(s, "session_end")[1]]

\* The current reading, once index 0 of each list is known to exist.
Current(s) ==
    [view |-> "current",
     started |-> get(s, "session_start")[1],
     bike_mph |-> lindex(s, "bike_mph", 0)[1],
     resistance |-> lindex(s, "resistance", 0)[1],
     heart_bpm |-> lindex(s, "heart_bpm", 0)[1],
     last_update |-> lindex(s, "timestamp", 0)[1]]

Fault(exc, at) == [view |-> "error", exc |-> exc, at |-> at]

\* What the callback returns from the store s, or the exception it raises and
\* the key whose value raised it: int(None) and float(None) raise TypeError,
\* sum([])/len([]) raises ZeroDivisionError.
update_metrics(s) ==
    IF exists(s, "session_end") /\ exists(s, "timestamp") THEN
        IF ~exists(s, "session_start") THEN Fault("TypeError", "session_start")
        ELSE IF Len(lrange(s, "bike_mph")) > 0 /\ Len(lrange(s, "heart_bpm")) > 0 THEN
            IF Len(lrange(s, "resistance")) = 0
            THEN Fault("ZeroDivisionError", "resistance")
            ELSE Summary(s)
        ELSE [view |-> "waiting"]
    ELSE IF exists(s, "session_start") /\ exists(s, "timestamp") THEN
        IF lindex(s, "bike_mph", 0) = <<>> THEN Fault("TypeError", "bike_mph")
        ELSE IF lindex(s, "resistance", 0) = <<>> THEN Fault("TypeError", "resistance")
        ELSE IF lindex(s, "heart_bpm", 0) = <<>> THEN Fault("TypeError", "heart_bpm")
        ELSE Current(s)
    ELSE [view |-> "waiting"]

UpdateMetrics ==
    /\ app = "current"
    /\ last' = [op |-> "update_metrics", req |-> <<>>, out |-> update_metrics(r)]
    /\ UNCHANGED <<app, environ, r, accepted, inflight>>

\* update_metrics of the legacy app: the newest sample, or the waiting text.
update_metrics_legacy(s) ==
    IF exists(s, "timestamp") THEN
        IF lindex(s, "bike_mph", 0) = <<>> THEN Fault("TypeError", "bike_mph")
        ELSE IF lindex(s, "heart_bpm", 0) = <<>> THEN Fault("TypeError", "heart_bpm")
        ELSE [view |-> "current",
              bike_mph |-> lindex(s, "bike_mph", 0)[1],
              heart_bpm |-> lindex(s, "heart_bpm", 0)[1],
              last_update |-> lindex(s, "timestamp", 0)[1]]
    ELSE [view |-> "waiting"]

UpdateMetricsLegacy ==
    /\ app = "legacy"
    /\ last' = [op |-> "update_metrics", req |-> <<>>, out |-> update_metrics_legacy(r)]
    /\ UNCHANGED <<app, environ, r, accepted, inflight>>

(***************************************************************************)
(* The remote control gate of the current app.                             *)
(***************************************************************************)
\* The HTTP request of a browser callback: the peer address and the
\* X-Forwarded-For header, already split at the commas (<<>>: no header).
HttpRequests == [remote_addr : Ips, forwarded : {<<>>, <<"1.2.3.4">>, <<"5.6.7.8", "1.2.3.4">>}]

\* dash.callback_context.triggered[0]['prop_id']: "." when nothing triggered
\* the callback (no {...} to find), else the id of the control and its index.
ChangedIds == {<<>>} \cup {<<i>> : i \in {"down", "up", "reset"}}

\* What api.particle.io answers: the status code and, on 200, return_value.
StatusCodes == {200, 400, 401, 403, 404, 408, 429, 500, 503}
ReturnValues == {MIN_RESISTANCE, 5, MAX_RESISTANCE}
CloudReplies ==
    [status_code : {200}, return_value : ReturnValues]
    \cup [status_code : StatusCodes \ {200}, return_value : {0}]

ClientIp(http) ==
    IF http.forwarded # <<>> THEN http.forwarded[1] ELSE http.remote_addr

\* Mutant: the peer address is compared, the forwarded header ignored.
ip_matches_peer(s, http) == exists(s, "bike_ip") /\ http.remote_addr = get(s, "bike_ip")[1]

ip_matches(s, http) == exists(s, "bike_ip") /\ ClientIp(http) = get(s, "bike_ip")[1]

DevMode == environ.mode # <<>> /\ environ.mode[1] = "dev"

\* Mutant: the messages of 408 and 429 swapped.
particle_cloud_function_swapped(reply) ==
    LET c == reply.status_code IN
    IF c = 200 THEN [success |-> TRUE, msg |-> "Command sent successfully."]
    ELSE IF c = 400 THEN [success |-> FALSE, msg |-> "Command Failed! Is the bike on?"]
    ELSE IF c = 401 THEN [success |-> FALSE, msg |-> "Control not Authorized!"]
    ELSE IF c = 403 THEN [success |-> FALSE, msg |-> "Control not Authorized for this Device!"]
    ELSE IF c = 404 THEN [success |-> FALSE, msg |-> "Device not available!"]
    ELSE IF c = 408 THEN [success |-> FALSE, msg |-> "Command speed limit exceeded!"]
    ELSE IF c = 429 THEN [success |-> FALSE, msg |-> "Command timed out!"]
    ELSE IF c = 500 THEN [success |-> FALSE, msg |-> "Server error encountered!"]
    ELSE [success |-> FALSE, msg |-> "An unknown failure occurred."]

\* (success, msg) for the status code of the cloud's answer.
particle_cloud_function(reply) ==
    LET c == reply.status_code IN
    IF c = 200 THEN [success |-> TRUE, msg |-> "Command sent successfully."]
    ELSE IF c = 400 THEN [success |-> FALSE, msg |-> "Command Failed! Is the bike on?"]
    ELSE IF c = 401 THEN [success |-> FALSE, msg |-> "Control not Authorized!"]
    ELSE IF c = 403 THEN [success |-> FALSE, msg |-> "Control not Authorized for this Device!"]
    ELSE IF c = 404 THEN [success |-> FALSE, msg |-> "Device not available!"]
    ELSE IF c = 408 THEN [success |-> FALSE, msg |-> "Command timed out!"]
    ELSE IF c = 429 THEN [success |-> FALSE, msg |-> "Command speed limit exceeded!"]
    ELSE IF c = 500 THEN [success |-> FALSE, msg |-> "Server error encountered!"]
    ELSE [success |-> FALSE, msg |-> "An unknown failure occurred."]

\* Mutant: the sidebar is shown to everybody.
update_control_sidebar_shown(s, http) ==
    IF ip_matches(s, http) THEN [children |-> <<"Control Authorized (IP Match)">>, hidden |-> FALSE]
    ELSE IF DevMode THEN [children |-> <<"Control Authorized (Dev Mode)">>, hidden |-> FALSE]
    ELSE [children |-> <<>>, hidden |-> FALSE]

\* The callback that shows or hides the control sidebar: (children, hidden).
update_control_sidebar(s, http) ==
    IF ip_matches(s, http) THEN [children |-> <<"Control Authorized (IP Match)">>, hidden |-> FALSE]
    ELSE IF DevMode THEN [children |-> <<"Control Authorized (Dev Mode)">>, hidden |-> FALSE]
    ELSE [children |-> <<>>, hidden |-> TRUE]

UpdateControlSidebar ==
    /\ app = "current"
    /\ \E http \in HttpRequests :
         last' = [op |-> "update_control_sidebar", req |-> [http |-> http],
                  out |-> update_control_sidebar(r, http)]
    /\ UNCHANGED <<app, environ, r, accepted, inflight>>

PreventUpdate == [update |-> FALSE, calls |-> <<>>]

Outputs(calls, down, up, text, color) ==
    [update |-> TRUE, calls |-> calls, down_disabled |-> down, up_disabled |-> up,
     children |-> text, is_open |-> TRUE, color |-> color]

\* Mutant: the Min and Max cases swapped.
DisabledSwapped(res) ==
    IF res = MIN_RESISTANCE THEN <<FALSE, TRUE, " (Min)">>
    ELSE IF res = MAX_RESISTANCE THEN <<TRUE, FALSE, " (Max)">>
    ELSE <<FALSE, FALSE, "">>

\* (down disabled, up disabled, suffix of the text) for the resistance the
\* device reports.
Disabled(res) ==
    IF res = MIN_RESISTANCE THEN <<TRUE, FALSE, " (Min)">>
    ELSE IF res = MAX_RESISTANCE THEN <<FALSE, TRUE, " (Max)">>
    ELSE <<FALSE, FALSE, "">>

\* Mutant: a failed command is sent a second time.
DispatchRetry(index, prefix, reply) ==
    LET cmd == "resistance_" \o index
        res == particle_cloud_function(reply)
        call == [cmd |-> cmd, success |-> res.success, msg |-> res.msg]
        alert_text == prefix \o "Resistance set to " \o ToString(reply.return_value)
        d == Disabled(reply.return_value)
    IN  IF res.success
        THEN Outputs(<<call>>, d[1], d[2], alert_text \o d[3], "success")
        ELSE Outputs(<<call, call>>, FALSE, FALSE, prefix \o res.msg, "primary")

\* After the IP check: send the command and turn the answer into the outputs.
\* The call is logged with what particle_cloud_function returned for it.
Dispatch(index, prefix, reply) ==
    LET cmd == "resistance_" \o index
        res == particle_cloud_function(reply)
        call == [cmd |-> cmd, success |-> res.success, msg |-> res.msg]
        alert_text == prefix \o "Resistance set to " \o ToString(reply.return_value)
        d == Disabled(reply.return_value)
    IN  IF res.success
        THEN Outputs(<<call>>, d[1], d[2], alert_text \o d[3], "success")
        ELSE Outputs(<<call>>, FALSE, FALSE, prefix \o res.msg, "primary")

\* Mutant: dev mode does not override the IP check.
change_resistance_strict(s, changed_id, http, reply) ==
    IF changed_id = <<>> THEN PreventUpdate
    ELSE IF changed_id[1] = "down" \/ changed_id[1] = "up" THEN
        IF ~ip_matches(s, http)
        THEN Outputs(<<>>, FALSE, FALSE, "Command blocked due to IP mismatch.", "warning")
        ELSE Dispatch(changed_id[1], "", reply)
    ELSE PreventUpdate

\* The callback: `calls` lists the commands sent to the device.
change_resistance(s, changed_id, http, reply) ==
    IF changed_id = <<>> THEN PreventUpdate
    ELSE IF changed_id[1] = "down" \/ changed_id[1] = "up" THEN
        IF ~ip_matches(s, http) THEN
            IF DevMode THEN Dispatch(changed_id[1], "[Dev Override] ", reply)
            ELSE Outputs(<<>>, FALSE, FALSE, "Command blocked due to IP mismatch.", "warning")
        ELSE Dispatch(changed_id[1], "", reply)
    ELSE PreventUpdate

ChangeResistance ==
    /\ app = "current"
    /\ \E changed_id \in ChangedIds, http \in HttpRequests, reply \in CloudReplies :
         last' = [op |-> "change_resistance",
                  req |-> [changed_id |-> changed_id, http |-> http, reply |-> reply],
                  out |-> change_resistance(r, changed_id, http, reply)]
    /\ UNCHANGED <<app, environ, r, accepted, inflight>>

(***************************************************************************)
(* /update handlers interleaved: every step is one Redis operation of one   *)
(* handler (Redis runs each operation atomically, a handler is a sequence   *)
(* of them).  The decorator reads no key; the requests here pass it.        *)
(***************************************************************************)
Idle == [pc |-> "idle"]

ConcData ==
    { d \in UpdateData :
        /\ d.event \in {"start_session", "end_session", "new_data"}
        /\ d.event = "start_session" => d.ip = "1.2.3.4" /\ d.t = 1
        /\ d.event = "end_session" => d.t = 2
        /\ d.event = "new_data" => d.bike_mph = 10 }

\* The first Redis operation of the branch an event takes.
FirstPc(event) ==
    IF event = "start_session" THEN "flushdb"
    ELSE IF event = "end_session" THEN "set_session_end"
    ELSE "exists_timestamp"

\* Mutant: the answer of r.exists('session_end') is not looked at.
AfterExistsEndPush(e) == "lpush_timestamp"

\* After r.exists('session_end') answered e: discard, or go on to the pushes.
AfterExistsEnd(e) == IF e THEN "idle" ELSE "lpush_timestamp"

\* Mutant: the heart_bpm push is left out.
AfterPushNoHeart(key) ==
    IF key = "timestamp" THEN "lpush_bike_mph"
    ELSE IF key = "bike_mph" THEN "lpush_resistance"
    ELSE "idle"

\* The operation that follows r.lpush(key, ...): the next push, or the return.
AfterPush(key) ==
    IF key = "timestamp" THEN "lpush_bike_mph"
    ELSE IF key = "bike_mph" THEN "lpush_resistance"
    ELSE IF key = "resistance" THEN "lpush_heart_bpm"
    ELSE "idle"

PushKey(pc) ==
    IF pc = "lpush_timestamp" THEN "timestamp"
    ELSE IF pc = "lpush_bike_mph" THEN "bike_mph"
    ELSE IF pc = "lpush_resistance" THEN "resistance"
    ELSE "heart_bpm"

PushPcs == {"lpush_timestamp", "lpush_bike_mph", "lpush_resistance", "lpush_heart_bpm"}
CheckPcs == {"exists_timestamp", "lindex_timestamp", "exists_session_end"}

\* The handler h goes on at pc, or returns (pc = "idle").
Goto(h, pc) ==
    inflight' = [inflight EXCEPT ![h] = IF pc = "idle" THEN Idle ELSE [@ EXCEPT !.pc = pc]]

StoreOp(op, h, key) == [op |-> op, req |-> [h |-> h, key |-> key], out |-> <<>>]

\* A request arrives and its handler starts; no key is touched yet.
Receive(h) ==
    /\ app = "current"
    /\ inflight[h] = Idle
    /\ \E d \in ConcData :
         /\ d.event = "new_data" =>
               accepted + Cardinality({g \in Handlers : inflight[g].pc \in CheckPcs}) < MaxConcLen
         /\ inflight' = [inflight EXCEPT ![h] =
                            [pc |-> FirstPc(d.event), d |-> d, end_exists |-> FALSE, late |-> FALSE]]
    /\ UNCHANGED <<app, environ, r, last, accepted>>

\* new_data: r.exists('timestamp')
ExistsTimestamp(h) ==
    /\ inflight[h].pc = "exists_timestamp"
    /\ Goto(h, IF exists(r, "timestamp") THEN "lindex_timestamp" ELSE "exists_session_end")
    /\ last' = StoreOp("exists", h, "timestamp")
    /\ UNCHANGED <<app, environ, r, accepted>>

\* new_data: int(r.lindex('timestamp', 0)) > int(t); int(None) ends the
\* handler with a TypeError.
LindexTimestamp(h) ==
    /\ inflight[h].pc = "lindex_timestamp"
    /\ LET v == lindex(r, "timestamp", 0) IN
         Goto(h, IF v = <<>> THEN "idle"
                 ELSE IF v[1] > inflight[h].d.t THEN "idle"
                 ELSE "exists_session_end")
    /\ last' = StoreOp("lindex", h, "timestamp")
    /\ UNCHANGED <<app, environ, r, accepted>>

\* new_data: r.exists('session_end'), the last part of the test.
ExistsSessionEnd(h) ==
    /\ inflight[h].pc = "exists_session_end"
    /\ LET e == exists(r, "session_end")
           pc == AfterExistsEnd(e)
       IN  /\ inflight' = [inflight EXCEPT ![h] =
                    IF pc = "idle" THEN Idle ELSE [@ EXCEPT !.pc = pc, !.end_exists = e]]
           /\ accepted' = IF pc = "idle" THEN accepted ELSE accepted + 1
    /\ last' = StoreOp("exists", h, "session_end")
    /\ UNCHANGED <<app, environ, r>>

\* new_data: one of the four r.lpush calls.  `late` remembers whether the
\* session_end marker was there when the handler pushed its timestamp.
Push(h) ==
    /\ inflight[h].pc \in PushPcs
    /\ LET key == PushKey(inflight[h].pc)
           d == inflight[h].d
           late == IF key = "timestamp" THEN exists(r, "session_end") ELSE inflight[h].late
           pc == AfterPush(key)
       IN  /\ r' = lpush(r, key, IF key = "timestamp" THEN d.t ELSE d[key])
           /\ inflight' = [inflight EXCEPT ![h] =
                    IF pc = "idle" THEN Idle ELSE [@ EXCEPT !.pc = pc, !.late = late]]
           /\ last' = [op |-> "lpush", req |-> [h |-> h, key |-> key],
                       out |-> [late |-> late, end_exists |-> inflight[h].end_exists]]
    /\ UNCHANGED <<app, environ, accepted>>

\* start_session: r.flushdb(), r.set('session_start', t), r.set('bike_ip', ip)
Flush(h) ==
    /\ inflight[h].pc = "flushdb"
    /\ r' = flushdb
    /\ accepted' = 0
    /\ Goto(h, "set_session_start")
    /\ last' = StoreOp("flushdb", h, "")
    /\ UNCHANGED <<app, environ>>

SetSessionStart(h) ==
    /\ inflight[h].pc = "set_session_start"
    /\ r' = set(r, "session_start", inflight[h].d.t)
    /\ Goto(h, "set_bike_ip")
    /\ last' = StoreOp("set", h, "session_start")
    /\ UNCHANGED <<app, environ, accepted>>

SetBikeIp(h) ==
    /\ inflight[h].pc = "set_bike_ip"
    /\ r' = set(r, "bike_ip", inflight[h].d.ip)
    /\ Goto(h, "idle")
    /\ last' = StoreOp("set", h, "bike_ip")
    /\ UNCHANGED <<app, environ, accepted>>

\* end_session: r.set('session_end', t), r.delete('bike_ip'), time.sleep(.1)
SetSessionEnd(h) ==
    /\ inflight[h].pc = "set_session_end"
    /\ r' = set(r, "session_end", inflight[h].d.t)
    /\ Goto(h, "delete_bike_ip")
    /\ last' = StoreOp("set", h, "session_end")
    /\ UNCHANGED <<app, environ, accepted>>

DeleteBikeIp(h) ==
    /\ inflight[h].pc = "delete_bike_ip"
    /\ r' = delete(r, "bike_ip")
    /\ Goto(h, "sleep")
    /\ last' = StoreOp("delete", h, "bike_ip")
    /\ UNCHANGED <<app, environ, accepted>>

Sleep(h) ==
    /\ inflight[h].pc = "sleep"
    /\ Goto(h, "idle")
    /\ last' = StoreOp("sleep", h, "")
    /\ UNCHANGED <<app, environ, r, accepted>>

(***************************************************************************)
(* Initial state and the specification.                                    *)
(***************************************************************************)
Environs == [apikey : {<<>>, <<"secret">>}, mode : {<<>>, <<"dev">>}]

NoOp == [op |-> "none", req |-> <<>>, out |-> <<>>]

Init ==
    /\ app \in {"current", "legacy"}
    /\ environ \in Environs
    /\ r = flushdb
    /\ last = NoOp
    /\ accepted = 0
    /\ inflight = [h \in Handlers |-> Idle]

Next ==
    \/ RestUpdate(UpdateRequests)
    \/ AppendSample
    \/ UpdateMetrics
    \/ UpdateMetricsLegacy

Spec == Init /\ [][Next]_vars

\* The control gate with the events that decide who may control the bike.
SessionRequests ==
    { q \in UpdateRequests :
        q.apikey = <<"secret">> /\ q.data.event \in {"start_session", "end_session"} }

NextGate ==
    \/ RestUpdate(SessionRequests)
    \/ ChangeResistance
    \/ UpdateControlSidebar

SpecGate == Init /\ [][NextGate]_vars

\* The legacy app alone, with a configured key, fed past the trim.
InitLegacy == Init /\ app = "legacy" /\ environ = [apikey |-> <<"secret">>, mode |-> <<>>]

NextLegacy ==
    \/ AppendLong
    \/ UpdateMetricsLegacy

SpecLegacy == InitLegacy /\ [][NextLegacy]_vars

\* The current app with a configured key, its /update handlers interleaved
\* and the poll running between their operations.
InitConc == Init /\ app = "current" /\ environ = [apikey |-> <<"secret">>, mode |-> <<>>]

NextConc ==
    \/ \E h \in Handlers :
          \/ Receive(h)
          \/ ExistsTimestamp(h)
          \/ LindexTimestamp(h)
          \/ ExistsSessionEnd(h)
          \/ Push(h)
          \/ Flush(h)
          \/ SetSessionStart(h)
          \/ SetBikeIp(h)
          \/ SetSessionEnd(h)
          \/ DeleteBikeIp(h)
          \/ Sleep(h)
    \/ UpdateMetrics

SpecConc == InitConc /\ [][NextConc]_vars

(***************************************************************************)
(* Properties.                                                             *)
(***************************************************************************)
\* The step handles a webhook request that passed the decorator.
UpdateStep == last'.op = "rest_update" /\ require_apikey(last'.req) = "pass"
AppendStep == last'.op = "append_data" /\ require_apikey(last'.req) = "pass"
NewDataStep == UpdateStep /\ last'.req.data.event = "new_data"

\* The state is the one an /update request that passed the decorator left.
UpdateDone == last.op = "rest_update" /\ last.out.status \notin {401, 500}
NewDataDone == UpdateDone /\ last.req.data.event = "new_data"

SameLists == \A k \in ListKeys : r'[k] = r[k]

\* C1: once end_session has set the session_end marker, every new_data event
\* is answered "ignored stale data" and leaves the four lists as they were,
\* whatever its t, and the marker stays until a start_session event is handled.
C1_RejectedAfterEnd ==
    [][exists(r, "session_end") =>
          /\ NewDataStep => last'.out.reply = "ignored stale data" /\ SameLists
          /\ ~(UpdateStep /\ last'.req.data.event = "start_session")
                => exists(r', "session_end")]_vars

\* A new_data event newer than the newest stored sample was turned away
\* because the session had ended.
C1_Witness ==
    /\ NewDataDone
    /\ exists(r, "session_end")
    /\ exists(r, "timestamp")
    /\ last.req.data.t > r.timestamp[1]
    /\ last.out.reply = "ignored stale data"

\* C2: a new_data event (/update) or a sample (/append) whose t is less than
\* the timestamp at index 0 is answered "ignored stale data" and leaves every
\* key of the store as it was; handling it again gives the same answer and
\* the same store.
C2_StaleRejected ==
    [][((NewDataStep \/ AppendStep)
            /\ exists(r, "timestamp") /\ last'.req.data.t < r.timestamp[1]) =>
          /\ last'.out = [reply |-> "ignored stale data", status |-> 200]
          /\ r' = r
          /\ LET again == IF app = "current" THEN update_route(r', last'.req)
                                             ELSE append_route(r', last'.req)
             IN  again = [store |-> r', reply |-> "ignored stale data", status |-> 200]]_vars

\* A stale sample was turned away while no session_end marker was present.
C2_Witness ==
    /\ NewDataDone
    /\ ~exists(r, "session_end")
    /\ Len(r.timestamp) = 2
    /\ last.req.data.t < r.timestamp[1]
    /\ last.out.reply = "ignored stale data"

\* C3: a start_session event with t and ip, handled in any state, leaves the
\* four lists empty, no session_end and no powered_on marker, session_start = t
\* and bike_ip = ip, and is answered "started session" with status 200.
C3_StartSessionResets ==
    [][(UpdateStep /\ last'.req.data.event = "start_session") =>
          /\ \A k \in ListKeys : r'[k] = <<>>
          /\ r'.session_end = <<>>
          /\ r'.powered_on = <<>>
          /\ r'.session_start = <<last'.req.data.t>>
          /\ r'.bike_ip = <<last'.req.data.ip>>
          /\ last'.out = [reply |-> "started session", status |-> 200]]_vars

\* A start_session event with t = 2 and ip = 5.6.7.8 was handled.
C3_Witness ==
    /\ UpdateDone
    /\ last.req.data.event = "start_session"
    /\ r.session_start = <<2>>
    /\ r.bike_ip = <<"5.6.7.8">>
    /\ r.timestamp = <<>>

\* C4: with no session_end marker, a new_data event whose t is greater than
\* the newest stored timestamp (or that meets an empty store) is answered
\* "data appended", each of the four lists grows by exactly one entry, and the
\* four lengths are equal afterwards.
C4_IncreasingAccepted ==
    [][(NewDataStep
          /\ ~exists(r, "session_end")
          /\ (exists(r, "timestamp") => last'.req.data.t > r.timestamp[1])) =>
          /\ last'.out = [reply |-> "data appended", status |-> 200]
          /\ \A k \in ListKeys : Len(r'[k]) = Len(r[k]) + 1
          /\ \A k \in ListKeys : Len(r'[k]) = Len(r'.timestamp)]_vars

\* Two samples with strictly increasing t were accepted one after the other.
C4_Witness ==
    /\ NewDataDone
    /\ last.out.reply = "data appended"
    /\ Len(r.timestamp) = 2
    /\ r.timestamp[1] > r.timestamp[2]
    /\ ~exists(r, "session_end")

\* C5: in every state the current app reaches by completed /update events,
\* the lists timestamp, bike_mph, resistance and heart_bpm have the same length.
C5_EqualLengths ==
    app = "current" =>
        \A k \in ListKeys : Len(r[k]) = Len(r.timestamp)

\* Samples were ingested, a start_session emptied the lists, and a sample was
\* ingested again: the state after the last accepted sample of a full list.
C5_Witness ==
    /\ NewDataDone
    /\ last.out.reply = "data appended"
    /\ \A k \in ListKeys : Len(r[k]) = MaxLen

Sorted(ts) == \A i \in 1..Len(ts) : \A j \in i..Len(ts) : ts[i] >= ts[j]

\* The state is the one an accepted sample left, in either app.
Appended ==
    /\ last.op \in {"rest_update", "append_data"}
    /\ last.out.reply = "data appended"

\* C6: in every state reached by completed events the timestamp list is
\* ordered newest first: every entry is >= the entries after it, and right
\* after a sample is accepted its t is the entry at index 0.
C6_NewestFirst ==
    /\ Sorted(r.timestamp)
    /\ Appended => r.timestamp[1] = last.req.data.t

\* The legacy app accepted a sample newer than the one stored before it.
C6_Witness ==
    /\ app = "legacy"
    /\ Appended
    /\ Len(r.timestamp) = 3
    /\ r.timestamp[1] > r.timestamp[3]

\* C7: update_metrics never faults: in every state reached by completed
\* powered_on, start_session, end_session and new_data events from an empty
\* store it returns the summary, the current reading or the waiting text.
C7_MetricsNeverFault ==
    app = "current" => update_metrics(r).view \in {"summary", "current", "waiting"}

\* C8: when the up or down control triggers change_resistance, the client IP
\* is not the stored bike_ip (or none is stored) and dev mode is not set, no
\* command is sent to the device and the result is the warning "Command
\* blocked due to IP mismatch." with both controls left enabled.
C8_BlockedOnMismatch ==
    (/\ last.op = "change_resistance"
     /\ last.req.changed_id \in {<<"up">>, <<"down">>}
     /\ r.bike_ip # <<(IF last.req.http.forwarded # <<>>
                          THEN last.req.http.forwarded[1]
                          ELSE last.req.http.remote_addr)>>
     /\ environ.mode # <<"dev">>)
    => last.out = [update |-> TRUE, calls |-> <<>>,
                   down_disabled |-> FALSE, up_disabled |-> FALSE,
                   children |-> "Command blocked due to IP mismatch.",
                   is_open |-> TRUE, color |-> "warning"]

\* A click was blocked although the peer address is the bike's: the
\* forwarded header names another client.
C8_Witness ==
    /\ last.op = "change_resistance"
    /\ last.req.changed_id = <<"up">>
    /\ exists(r, "bike_ip")
    /\ last.req.http.remote_addr = r.bike_ip[1]
    /\ last.req.http.forwarded # <<>>
    /\ last.req.http.forwarded[1] # r.bike_ip[1]
    /\ last.out.calls = <<>>
    /\ last.out.color = "warning"

KnownEvents == {"powered_on", "start_session", "end_session", "new_data"}

\* C9: an /update event whose tag is none of powered_on, start_session,
\* end_session, new_data is answered "event '<name>' not understood" with
\* status 501 and leaves every key of the store as it was; every event of a
\* known kind is answered with status 200.
C9_UnknownEvent ==
    [][UpdateStep =>
          IF last'.req.data.event \in KnownEvents
          THEN last'.out.status = 200
          ELSE /\ last'.out = [reply |-> "event '" \o last'.req.data.event \o "' not understood",
                               status |-> 501]
               /\ r' = r]_vars

\* An unknown event was turned away in the middle of a session with samples.
C9_Witness ==
    /\ last.op = "rest_update"
    /\ last.out = [reply |-> "event 'reboot' not understood", status |-> 501]
    /\ exists(r, "session_start")
    /\ exists(r, "timestamp")

\* C10: a webhook request whose apikey is missing or empty, or differs from
\* the configured one, or that arrives when none is configured, is answered
\* "invalid key" with status 401 and leaves the store as it was.
C10_InvalidKey ==
    [][(/\ last'.op \in {"rest_update", "append_data"}
        /\ \/ last'.req.apikey \in {<<>>, <<"">>}
           \/ environ.apikey = <<>>
           \/ last'.req.apikey # environ.apikey)
       => /\ last'.out = [reply |-> "invalid key", status |-> 401]
          /\ r' = r]_vars

Abs(x) == IF x < 0 THEN -x ELSE x

\* a, in hundredths, is the mean of xs to the nearest hundredth.
IsMean(a, xs) == 2 * Abs(100 * SumSeq(xs) - a * Len(xs)) <= Len(xs)

IsMax(m, xs) == (\E i \in 1..Len(xs) : xs[i] = m) /\ (\A i \in 1..Len(xs) : xs[i] <= m)

\* The state is the one a poll of update_metrics left (the poll changes no key).
MetricsDone == app = "current" /\ last.op = "update_metrics"

C12_CurrentReading ==
    last.op = "update_metrics" =>
        /\ last.out.view = "waiting" <=> ~exists(r, "timestamp")
        /\ (exists(r, "timestamp") /\ ~exists(r, "session_end")) =>
              /\ last.out.view = "current"
              /\ last.out.bike_mph = r.bike_mph[1]
              /\ last.out.heart_bpm = r.heart_bpm[1]
              /\ app = "current" => last.out.resistance = r.resistance[1]

\* The state is the one a change_resistance call that sent a command left.
Dispatched == last.op = "change_resistance" /\ last.out.calls # <<>>

\* The table of section 4.3: the message for a status code.
TableMsg(c) ==
    CASE c = 200 -> "Command sent successfully."
      [] c = 400 -> "Command Failed! Is the bike on?"
      [] c = 401 -> "Control not Authorized!"
      [] c = 403 -> "Control not Authorized for this Device!"
      [] c = 404 -> "Device not available!"
      [] c = 408 -> "Command timed out!"
      [] c = 429 -> "Command speed limit exceeded!"
      [] c = 500 -> "Server error encountered!"
      [] OTHER -> "An unknown failure occurred."

\* C13: after change_resistance sent a command: on success with the reported
\* resistance MIN_RESISTANCE decrease is disabled and increase enabled, with
\* MAX_RESISTANCE increase is disabled and decrease enabled, with any other
\* value both are enabled; on failure both stay enabled and the failure
\* message is shown.
C13_ControlsAfterDispatch ==
    Dispatched =>
        LET code == last.req.reply.status_code
            res == last.req.reply.return_value
            out == last.out
        IN  IF code = 200 THEN
                /\ out.color = "success"
                /\ res = 1 => out.down_disabled /\ ~out.up_disabled
                /\ res = 10 => ~out.down_disabled /\ out.up_disabled
                /\ res \notin {1, 10} => ~out.down_disabled /\ ~out.up_disabled
            ELSE
                /\ ~out.down_disabled /\ ~out.up_disabled
                /\ out.children \in {TableMsg(code), "[Dev Override] " \o TableMsg(code)}
                /\ out.is_open

\* The device reported the maximum: increase is disabled, decrease is not.
C13_Witness ==
    /\ Dispatched
    /\ last.req.reply = [status_code |-> 200, return_value |-> 10]
    /\ last.out.up_disabled
    /\ ~last.out.down_disabled
    /\ last.out.children = "Resistance set to 10 (Max)"

\* C14: particle_cloud_function turns the status code into (success, message)
\* as the table says, "An unknown failure occurred." for every code not in it,
\* and success is true for 200 only.
C14_StatusTable ==
    Dispatched =>
        /\ Len(last.out.calls) = 1
        /\ last.out.calls[1].msg = TableMsg(last.req.reply.status_code)
        /\ last.out.calls[1].success = (last.req.reply.status_code = 200)

\* A code that is not in the table got the unknown-failure message.
C14_Witness ==
    /\ Dispatched
    /\ last.req.reply.status_code = 503
    /\ last.out.calls[1] = [cmd |-> "resistance_down", success |-> FALSE,
                            msg |-> "An unknown failure occurred."]

FirstN(xs, n) == SubSeq(xs, 1, IF Len(xs) < n THEN Len(xs) ELSE n)

LegacyKeys == {"timestamp", "bike_mph", "heart_bpm"}

\* C15: in the legacy app each of the lists timestamp, bike_mph and heart_bpm
\* holds min(n, 301) entries, n the number of samples accepted; an accepted
\* sample becomes the entry at index 0 and the 300 newest entries before it
\* follow it, so the oldest entry is the one dropped from a full list.
C15_LegacyWindow ==
    [][/\ \A k \in LegacyKeys :
            Len(r'[k]) = (IF accepted' < 301 THEN accepted' ELSE 301)
       /\ (last'.op = "append_data" /\ last'.out.reply = "data appended") =>
            \A k \in LegacyKeys :
               r'[k] = FirstN(<<IF k = "timestamp" THEN last'.req.data.t
                                                     ELSE last'.req.data[k]>> \o r[k], 301)
       /\ (last'.op = "append_data" /\ last'.out.reply # "data appended") => r' = r]_vars

\* 302 samples were accepted: the list is full, its oldest entry is a sample
\* accepted after the first one, which has been dropped.
C15_Witness ==
    /\ accepted = 302
    /\ Len(r.timestamp) = 301
    /\ r.timestamp[1] = 2
    /\ r.timestamp[301] = 1
    /\ r.bike_mph[301] = 10
    /\ r.heart_bpm[1] = 130

\* C16 as stated: a new_data event whose t is less than or equal to the
\* timestamp of the most recently accepted sample is rejected and not appended.
C16_StaleIfNotLater ==
    [][(NewDataStep /\ exists(r, "timestamp") /\ last'.req.data.t <= r.timestamp[1]) =>
          last'.out.reply = "ignored stale data" /\ SameLists]_vars

\* C16 as amended: with no session_end marker, a new_data event whose t is
\* less than the timestamp of the most recently accepted sample is rejected
\* and not appended; one whose t equals it is accepted and appended.
C16_StaleOnlyIfEarlier ==
    [][(NewDataStep /\ exists(r, "timestamp") /\ ~exists(r, "session_end")) =>
          /\ last'.req.data.t < r.timestamp[1] =>
                last'.out.reply = "ignored stale data" /\ SameLists
          /\ last'.req.data.t = r.timestamp[1] =>
                /\ last'.out.reply = "data appended"
                /\ r'.timestamp = <<last'.req.data.t>> \o r.timestamp
                /\ r'.bike_mph = <<last'.req.data.bike_mph>> \o r.bike_mph
                /\ r'.resistance = <<last'.req.data.resistance>> \o r.resistance
                /\ r'.heart_bpm = <<last'.req.data.heart_bpm>> \o r.heart_bpm]_vars

\* A sample with the timestamp of the newest stored one was accepted.
C16_Witness ==
    /\ NewDataDone
    /\ last.out.reply = "data appended"
    /\ Len(r.timestamp) >= 2
    /\ r.timestamp[1] = r.timestamp[2]
    /\ r.bike_mph[1] # r.bike_mph[2]


\* No /update handler is in flight.
Quiet == \A h \in Handlers : inflight[h] = Idle

\* The handler h has passed its test and has not yet pushed to the list key.
Pending(h, key) ==
    /\ inflight[h].pc \in PushPcs
    /\ \/ PushKey(inflight[h].pc) = key
       \/ PushKey(inflight[h].pc) = "timestamp"
       \/ PushKey(inflight[h].pc) = "bike_mph" /\ key \in {"resistance", "heart_bpm"}
       \/ PushKey(inflight[h].pc) = "resistance" /\ key = "heart_bpm"

\* The length the list key has once the handlers in flight have finished.
Settled(key) == Len(r[key]) + Cardinality({h \in Handlers : Pending(h, key)})

\* How much longer than the timestamp list the list key is going to be.
Skew(key) == Settled(key) - Settled("timestamp")

FlushStep == \E h \in Handlers : inflight[h].pc = "flushdb" /\ inflight'[h] # inflight[h]

\* C17: with /update handlers interleaved one store operation at a time, a
\* new_data handler pushes only if its own r.exists('session_end') answered
\* that there was no marker; nothing later stops it, so a handler that tested
\* before end_session set the marker pushes its whole sample after it was set
\* (the witness: the marker is present and a sample whose first push already
\* found the marker there has just been completed).
C17_PushAfterOwnCheck ==
    /\ \A h \in Handlers : inflight[h].pc \in PushPcs => ~inflight[h].end_exists
    /\ last.op = "lpush" => ~last.out.end_exists

C17_Witness ==
    /\ last.op = "lpush"
    /\ last.req.key = "heart_bpm"
    /\ last.out.late
    /\ exists(r, "session_end")
    /\ Len(r.heart_bpm) = Len(r.timestamp)
    /\ \E h \in Handlers : inflight[h].pc \in {"delete_bike_ip", "sleep"}

\* C18: with a new_data handler's pushes interleaved with a start_session
\* handler's flush, the four lists can end with different lengths once every
\* handler has finished, and no step other than the flush of a start_session
\* changes by how much each list differs from the timestamp list (counting
\* the pushes that handlers in flight still owe).
C18_SkewPersists ==
    [][FlushStep \/ \A key \in ListKeys : Skew(key)' = Skew(key)]_vars

C18_Witness ==
    /\ Quiet
    /\ last.op = "lpush"
    /\ Len(r.timestamp) = 1
    /\ Len(r.heart_bpm) = 2

\* C19: update_metrics, run between the store operations of /update handlers
\* in flight, never raises on an empty or missing list (no division by a zero
\* count, no conversion of a missing index-0 entry).
C19_NoFaultOnLists ==
    last.op = "update_metrics" =>
        ~(last.out.view = "error" /\ last.out.at \in ListKeys)

\* C20: whenever session_start is present and a sample is stored,
\* session_start is at most the timestamp of every stored sample.
C20_StartPrecedesSamples ==
    (app = "current" /\ exists(r, "session_start") /\ exists(r, "timestamp")) =>
        \A i \in 1..Len(r.timestamp) : get(r, "session_start")[1] <= r.timestamp[i]

\* C21: an end_session event is always answered "ended session" with status
\* 200, also with no session_start before it or with a session_end marker
\* already there; it sets session_end to t, removes bike_ip, and leaves the
\* four lists, session_start and powered_on as they were.
C21_EndSessionFrame ==
    [][(UpdateStep /\ last'.req.data.event = "end_session") =>
          /\ last'.out = [reply |-> "ended session", status |-> 200]
          /\ r'.session_end = <<last'.req.data.t>>
          /\ r'.bike_ip = <<>>
          /\ SameLists
          /\ r'.session_start = r.session_start
          /\ r'.powered_on = r.powered_on]_vars

\* An end_session event was handled with samples stored and no session_start.
C21_Witness ==
    /\ UpdateDone
    /\ last.req.data.event = "end_session"
    /\ last.out.reply = "ended session"
    /\ ~exists(r, "session_start")
    /\ exists(r, "timestamp")
    /\ r.session_end = <<last.req.data.t>>

\* C22: a powered_on event is always answered with status 200 and changes the
\* powered_on key only, which becomes t: lists, session_start, session_end and
\* bike_ip stay, so after a session's end every new_data is still turned away.
C22_PoweredOnFrame ==
    [][(UpdateStep /\ last'.req.data.event = "powered_on") =>
          /\ last'.out = [reply |-> "power on received", status |-> 200]
          /\ r' = [r EXCEPT !.powered_on = <<last'.req.data.t>>]
          /\ exists(r, "session_end") =>
                \A d \in UpdateData : d.event = "new_data" =>
                    rest_update(r', d) = [store |-> r', reply |-> "ignored stale data",
                                          status |-> 200]]_vars

\* A powered_on event was handled after the end of a session with samples,
\* and it replaced an earlier powered_on value.
C22_Witness ==
    /\ UpdateDone
    /\ last.req.data.event = "powered_on"
    /\ r.powered_on = <<last.req.data.t>>
    /\ exists(r, "session_start")
    /\ exists(r, "session_end")
    /\ exists(r, "timestamp")

\* C26: in every state reached by /update events each handled to completion,
\* bike_ip is present only if session_start is present and session_end absent.
C26_IpOnlyInSession ==
    (app = "current" /\ exists(r, "bike_ip")) =>
        exists(r, "session_start") /\ ~exists(r, "session_end")

\* A sample was accepted in a session started before the bike reported its
\* power-on: bike_ip is present.
C26_Witness ==
    /\ UpdateDone
    /\ last.req.data.event = "new_data"
    /\ last.out.reply = "data appended"
    /\ exists(r, "bike_ip")
    /\ exists(r, "powered_on")

\* The state is the one a click on the up or the down control left.
Clicked == last.op = "change_resistance" /\ last.req.changed_id \in {<<"up">>, <<"down">>}

\* The client address of the click: the first forwarded address, else the peer.
ClickIp ==
    IF last.req.http.forwarded # <<>> THEN last.req.http.forwarded[1]
    ELSE last.req.http.remote_addr

\* The status text for the cloud's answer, before any prefix.
StatusText(reply) ==
    IF reply.status_code = 200
    THEN "Resistance set to " \o ToString(reply.return_value)
            \o (IF reply.return_value = 1 THEN " (Min)"
                ELSE IF reply.return_value = 10 THEN " (Max)" ELSE "")
    ELSE TableMsg(reply.status_code)

C24_AtMostOneCommand ==
    last.op = "change_resistance" =>
        /\ Len(last.out.calls) <= 1
        /\ \A i \in 1..Len(last.out.calls) :
              /\ last.req.changed_id = <<"up">> => last.out.calls[i].cmd = "resistance_up"
              /\ last.req.changed_id = <<"down">> => last.out.calls[i].cmd = "resistance_down"
        /\ ~Clicked => last.out = [update |-> FALSE, calls |-> <<>>]

\* A command the cloud timed out on was sent once.
C24_Witness ==
    /\ Clicked
    /\ last.req.changed_id = <<"down">>
    /\ last.req.reply.status_code = 408
    /\ last.out.calls = <<[cmd |-> "resistance_down", success |-> FALSE,
                           msg |-> "Command timed out!"]>>

SessionStep(event) == UpdateStep /\ last'.req.data.event = event

\* C25: bike_ip is the ip of the last start_session from that event until the
\* next end_session, and absent from an end_session until the next
\* start_session; ip_matches is true exactly for the client whose address is
\* the stored bike_ip, so while it is absent and dev mode is not set, no click
\* sends a command and the control sidebar is hidden for every client.
C25_ControlOnlyInSession ==
    /\ [][/\ SessionStep("start_session") => r'.bike_ip = <<last'.req.data.ip>>
          /\ SessionStep("end_session") => r'.bike_ip = <<>>
          /\ ~(SessionStep("start_session") \/ SessionStep("end_session"))
                => r'.bike_ip = r.bike_ip]_vars
    /\ [](\A http \in HttpRequests :
             /\ ip_matches(r, http) <=> r.bike_ip = <<ClientIp(http)>>
             /\ (r.bike_ip = <<>> /\ environ.mode # <<"dev">>) =>
                   /\ update_control_sidebar(r, http).hidden
                   /\ \A changed_id \in ChangedIds, reply \in CloudReplies :
                         change_resistance(r, changed_id, http, reply).calls = <<>>)

\* After the end of a started session the sidebar stayed hidden.
C25_Witness ==
    /\ last.op = "update_control_sidebar"
    /\ last.out = [children |-> <<>>, hidden |-> TRUE]
    /\ exists(r, "session_start")
    /\ exists(r, "session_end")

\* C27: with two new_data handlers interleaved one store operation at a time
\* the timestamp list stays ordered newest first.
C27_NewestFirstInterleaved == Sorted(r.timestamp)
====
